---- MODULE Spec2Model ----
(***************************************************************************)
(* Model of src/src/scripts/estimate_required_images.py: the sample-size   *)
(* estimator for YOLO fine-tuning.  One run of main() is a behaviour: the  *)
(* command-line arguments are fixed by Init, and each step of main() is an *)
(* action.                                                                  *)
(*                                                                          *)
(* Strings are sequences of one-character strings, so that splitting,      *)
(* trimming and float() are computed character by character.  Real numbers *)
(* are exact rationals [n |-> numerator, d |-> denominator > 0] in lowest  *)
(* terms; the model does not cover binary floating-point rounding.         *)
(***************************************************************************)
EXTENDS Integers, Sequences, FiniteSets, TLC

\* An optional integer (argparse's default=None): None, or <<n>> for the int n.
None == <<>>
Some(n) == <<n>>

(***************************************************************************)
(* Rational arithmetic.                                                    *)
(***************************************************************************)
Abs(x) == IF x < 0 THEN -x ELSE x

RECURSIVE GCD(_, _)
GCD(a, b) == IF b = 0 THEN a ELSE GCD(b, a % b)

\* The rational n/d (d # 0) in lowest terms with a positive denominator.
Q(n, d) ==
    LET g == GCD(Abs(n), Abs(d))
        s == IF d < 0 THEN -1 ELSE 1
    IN  [n |-> s * (n \div g), d |-> s * (d \div g)]

IntQ(k) == [n |-> k, d |-> 1]
Zero == IntQ(0)
One == IntQ(1)

\* The value of a local variable of main() that is not bound yet.
Unbound == [n |-> 0, d |-> 0]

\* Products and quotients cancel common factors before multiplying.
MulQ(a, b) ==
    LET x == Q(a.n, b.d)
        y == Q(b.n, a.d)
    IN  [n |-> x.n * y.n, d |-> x.d * y.d]

DivQ(a, b) == MulQ(a, Q(b.d, b.n))
AddQ(a, b) == Q(a.n * b.d + b.n * a.d, a.d * b.d)
SubQ(a, b) == Q(a.n * b.d - b.n * a.d, a.d * b.d)
\* Comparisons cancel the common factor of the denominators first.
LtQ(a, b) ==
    LET g == GCD(a.d, b.d)
    IN  a.n * (b.d \div g) < b.n * (a.d \div g)
LeQ(a, b) ==
    LET g == GCD(a.d, b.d)
    IN  a.n * (b.d \div g) <= b.n * (a.d \div g)

\* math.ceil: the least integer >= q.
CeilMutant(q) == q.n \div q.d
Ceil(q) == -((-q.n) \div q.d)

RECURSIVE Pow10(_)
Pow10(k) == IF k = 0 THEN 1 ELSE 10 * Pow10(k - 1)

(***************************************************************************)
(* Character-level string operations (str.strip, str.split, float).        *)
(***************************************************************************)
Digits == {"0", "1", "2", "3", "4", "5", "6", "7", "8", "9"}

DigitVal(c) ==
    CASE c = "0" -> 0 [] c = "1" -> 1 [] c = "2" -> 2 [] c = "3" -> 3
      [] c = "4" -> 4 [] c = "5" -> 5 [] c = "6" -> 6 [] c = "7" -> 7
      [] c = "8" -> 8 [] c = "9" -> 9

\* The characters the modelled inputs are written in.  Over this alphabet
\* str.strip() removes exactly the spaces, and float() accepts exactly the
\* signed decimal literals with an optional exponent (no "inf", "nan" or "_"
\* can be spelled).
Alphabet ==
    Digits \cup {" ", ",", ":", ".", "-", "+",
                 "a", "b", "d", "e", "f", "h", "o", "r", "t", "y"}

RECURSIVE LStrip(_)
LStrip(s) == IF s # <<>> /\ Head(s) = " " THEN LStrip(Tail(s)) ELSE s

RECURSIVE RStrip(_)
RStrip(s) ==
    IF s # <<>> /\ s[Len(s)] = " " THEN RStrip(SubSeq(s, 1, Len(s) - 1)) ELSE s

\* str.strip()
Strip(s) == RStrip(LStrip(s))

\* Index of the first occurrence of c in s, 0 when there is none.
RECURSIVE IndexFrom(_, _, _)
IndexFrom(s, c, i) ==
    IF i > Len(s) THEN 0 ELSE IF s[i] = c THEN i ELSE IndexFrom(s, c, i + 1)

IndexOf(s, c) == IndexFrom(s, c, 1)

\* Index of the last occurrence of c in s, 0 when there is none.
RECURSIVE LastIndexFrom(_, _, _)
LastIndexFrom(s, c, i) ==
    IF i = 0 THEN 0 ELSE IF s[i] = c THEN i ELSE LastIndexFrom(s, c, i - 1)

\* str.split(c): the pieces between the occurrences of c ("" gives [""]).
RECURSIVE Split(_, _)
Split(s, c) ==
    LET i == IndexOf(s, c)
    IN  IF i = 0 THEN <<s>>
        ELSE <<SubSeq(s, 1, i - 1)>> \o Split(SubSeq(s, i + 1, Len(s)), c)

\* s.split(":", maxsplit=1) for an s that contains a colon: the text before
\* the first colon and the text after it.
SplitColonMutant(s) ==
    LET i == LastIndexFrom(s, ":", Len(s))
    IN  <<SubSeq(s, 1, i - 1), SubSeq(s, i + 1, Len(s))>>
SplitColon(s) ==
    LET i == IndexOf(s, ":")
    IN  <<SubSeq(s, 1, i - 1), SubSeq(s, i + 1, Len(s))>>

AllDigits(s) == \A i \in 1..Len(s) : s[i] \in Digits

RECURSIVE DigitsVal(_)
DigitsVal(s) ==
    IF s = <<>> THEN 0
    ELSE 10 * DigitsVal(SubSeq(s, 1, Len(s) - 1)) + DigitVal(s[Len(s)])

\* Drops one leading sign, if any.
Unsigned(s) == IF s # <<>> /\ Head(s) \in {"-", "+"} THEN Tail(s) ELSE s
Sign(s) == IF s # <<>> /\ Head(s) = "-" THEN -1 ELSE 1

\* An unsigned decimal: digits, digits "." [digits], or "." digits.
IsDecimal(s) ==
    LET i == IndexOf(s, ".")
        whole == IF i = 0 THEN s ELSE SubSeq(s, 1, i - 1)
        frac == IF i = 0 THEN <<>> ELSE SubSeq(s, i + 1, Len(s))
    IN  AllDigits(whole) /\ AllDigits(frac) /\ Len(whole) + Len(frac) > 0

DecimalVal(s) ==
    LET i == IndexOf(s, ".")
        whole == IF i = 0 THEN s ELSE SubSeq(s, 1, i - 1)
        frac == IF i = 0 THEN <<>> ELSE SubSeq(s, i + 1, Len(s))
    IN  Q(DigitsVal(whole \o frac), Pow10(Len(frac)))

\* float(s): [ok |-> TRUE, val |-> rational] when s is a float literal,
\* [ok |-> FALSE] when float() raises ValueError.
ParseFloat(s) ==
    LET t == Strip(s)
        e == IndexOf(t, "e")
        mant == Unsigned(IF e = 0 THEN t ELSE SubSeq(t, 1, e - 1))
        expo == IF e = 0 THEN <<>> ELSE SubSeq(t, e + 1, Len(t))
        expOk == e = 0 \/ (Unsigned(expo) # <<>> /\ AllDigits(Unsigned(expo)))
        k == DigitsVal(Unsigned(expo))
        scale == IF Sign(expo) < 0 THEN Q(1, Pow10(k)) ELSE IntQ(Pow10(k))
    IN  IF IsDecimal(mant) /\ expOk
        THEN [ok |-> TRUE,
              val |-> MulQ(MulQ(IntQ(Sign(t)), DecimalVal(mant)), scale)]
        ELSE [ok |-> FALSE]

(***************************************************************************)
(* parse_class_boxes                                                       *)
(***************************************************************************)
\* A dict is the sequence of its items in insertion order.
HasKey(entries, k) == \E i \in 1..Len(entries) : entries[i].name = k

\* entries[k] = v: an existing key keeps its place and takes the new value.
DictSetMutant(entries, k, v) ==
    IF HasKey(entries, k) THEN entries
    ELSE Append(entries, [name |-> k, value |-> v])
DictSet(entries, k, v) ==
    IF HasKey(entries, k)
    THEN [i \in 1..Len(entries) |->
            IF entries[i].name = k THEN [name |-> k, value |-> v]
            ELSE entries[i]]
    ELSE Append(entries, [name |-> k, value |-> v])

ErrPair == "Expected name:value pair"
ErrFloat == "could not convert string to float"
ErrNoClass == "At least one class:value pair is required."

\* The loop of parse_class_boxes over chunks[i..]: the entries built, or the
\* first error raised.
RECURSIVE ParseChunks(_, _, _)
ParseChunks(chunks, i, entries) ==
    IF i > Len(chunks) THEN [ok |-> TRUE, entries |-> entries]
    ELSE LET chunk == Strip(chunks[i])
         IN  IF chunk = <<>> THEN ParseChunks(chunks, i + 1, entries)
             ELSE IF IndexOf(chunk, ":") = 0 THEN [ok |-> FALSE, err |-> ErrPair]
             ELSE LET nv == SplitColon(chunk)
                      f == ParseFloat(nv[2])
                  IN  IF ~f.ok THEN [ok |-> FALSE, err |-> ErrFloat]
                      ELSE ParseChunks(chunks, i + 1,
                                       DictSet(entries, Strip(nv[1]), f.val))

parse_class_boxes(raw) ==
    LET r == ParseChunks(Split(raw, ","), 1, <<>>)
    IN  IF r.ok /\ r.entries = <<>> THEN [ok |-> FALSE, err |-> ErrNoClass]
        ELSE r

(***************************************************************************)
(* z_score, required_boxes, margin_from_boxes                              *)
(***************************************************************************)
ErrConfidence == "confidence must be in (0, 1)"
ErrMargin == "margin must be in (0, 1)"
ErrBaseRate == "base_rate must be in (0, 1)"
ErrBoxes == "boxes must be positive"
ErrPercent == "confidence percentage must be less than 100."
ErrBoxesPerImage == "boxes_per_image must be positive."

\* 0 < x < 1
InUnit(x) == LtQ(Zero, x) /\ LtQ(x, One)

\* NormalDist().inv_cdf(p), the standard normal quantile, tabulated to three
\* decimals at the probabilities the modelled confidences lead to.
inv_cdf(p) ==
    CASE p = Q(19, 20) -> Q(1645, 1000)
      [] p = Q(39, 40) -> Q(1960, 1000)
      [] p = Q(199, 200) -> Q(2576, 1000)
      [] p = Q(51, 100) -> Q(25, 1000)
      [] p = Q(101, 200) -> Q(13, 1000)

z_score(confidence) ==
    IF ~InUnit(confidence) THEN [ok |-> FALSE, err |-> ErrConfidence]
    ELSE [ok |-> TRUE, val |-> inv_cdf(AddQ(Q(1, 2), DivQ(confidence, IntQ(2))))]

\* n = (z^2 * p * (1 - p)) / E^2
RequiredBoxesMutant(zz, margin, base_rate) ==
    IF ~InUnit(margin) THEN [ok |-> FALSE, err |-> ErrMargin]
    ELSE [ok |-> TRUE,
          val |-> DivQ(MulQ(MulQ(MulQ(zz, zz), base_rate), SubQ(One, base_rate)),
                       MulQ(margin, margin))]
required_boxes(zz, margin, base_rate) ==
    IF ~InUnit(margin) THEN [ok |-> FALSE, err |-> ErrMargin]
    ELSE IF ~InUnit(base_rate) THEN [ok |-> FALSE, err |-> ErrBaseRate]
    ELSE [ok |-> TRUE,
          val |-> DivQ(MulQ(MulQ(MulQ(zz, zz), base_rate), SubQ(One, base_rate)),
                       MulQ(margin, margin))]

ErrDomain == "math domain error"

SignOf(q) == IF q.n > 0 THEN 1 ELSE IF q.n < 0 THEN -1 ELSE 0

\* z * sqrt(p * (1 - p) / boxes).  The square root of a rational is not a
\* rational in general, so the result is carried exactly as its sign and its
\* square: the value is sgn * sqrt(sq), with sgn the sign of z and
\* sq = z^2 * p * (1 - p) / boxes.  math.sqrt raises ValueError on a negative
\* argument.
MarginFromBoxesMutant(zz, base_rate, boxes) ==
    IF LeQ(boxes, Zero) THEN [ok |-> FALSE, err |-> ErrBoxes]
    ELSE LET radicand == MulQ(base_rate, SubQ(One, base_rate))
         IN  IF LtQ(radicand, Zero) THEN [ok |-> FALSE, err |-> ErrDomain]
             ELSE [ok |-> TRUE, sgn |-> SignOf(zz),
                   sq |-> MulQ(MulQ(zz, zz), radicand)]
margin_from_boxes(zz, base_rate, boxes) ==
    IF LeQ(boxes, Zero) THEN [ok |-> FALSE, err |-> ErrBoxes]
    ELSE LET radicand == DivQ(MulQ(base_rate, SubQ(One, base_rate)), boxes)
         IN  IF LtQ(radicand, Zero) THEN [ok |-> FALSE, err |-> ErrDomain]
             ELSE [ok |-> TRUE, sgn |-> SignOf(zz),
                   sq |-> MulQ(MulQ(zz, zz), radicand)]

(***************************************************************************)
(* main: pieces of the body                                                *)
(***************************************************************************)
\* Lines 98-102: a confidence above 1 is a percentage.
NormalizeMutant(c) ==
    IF LeQ(One, c)
    THEN IF LeQ(IntQ(100), c) THEN [ok |-> FALSE, err |-> ErrPercent]
         ELSE [ok |-> TRUE, val |-> DivQ(c, IntQ(100))]
    ELSE [ok |-> TRUE, val |-> c]
Normalize(c) ==
    IF LtQ(One, c)
    THEN IF LeQ(IntQ(100), c) THEN [ok |-> FALSE, err |-> ErrPercent]
         ELSE [ok |-> TRUE, val |-> DivQ(c, IntQ(100))]
    ELSE [ok |-> TRUE, val |-> c]

\* Line 108: the guard of the per-class loop.
NotPositiveMutant(boxes_per_image) == LtQ(boxes_per_image, Zero)
NotPositive(boxes_per_image) == LeQ(boxes_per_image, Zero)

\* Line 110: math.ceil(boxes_needed / boxes_per_image)
ImagesForMutant(n, boxes_per_image) ==
    Ceil(DivQ(IntQ(Ceil(n)), boxes_per_image))
ImagesFor(n, boxes_per_image) == Ceil(DivQ(n, boxes_per_image))

\* Line 112: max(per_class.values())
MaxCountMutant(pc_map) == pc_map[1].value
MaxCount(pc_map) ==
    CHOOSE m \in {pc_map[i].value : i \in 1..Len(pc_map)} :
        \A i \in 1..Len(pc_map) : pc_map[i].value <= m

\* Line 123: `if args.current_images:` -- None and 0 are both falsy.
Truthy(n) == n # None /\ n # Some(0)

\* Lines 113-121: the report, one record per printed line.
ReportLines(a, conf, zz, n, pc_map, rec) ==
    <<[kind |-> "target", margin |-> a.margin, confidence |-> conf, z |-> zz,
       base_rate |-> a.base_rate],
      [kind |-> "required", boxes |-> Ceil(n)],
      [kind |-> "images_header"]>>
    \o [i \in 1..Len(pc_map) |->
          [kind |-> "class", name |-> pc_map[i].name, count |-> pc_map[i].value]]
    \o <<[kind |-> "recommended", images |-> rec]>>

(***************************************************************************)
(* Command lines                                                           *)
(***************************************************************************)
\* Most chunks joined into one generated --class-boxes string.
MaxChunks == 2
\* --current-images ranges over None, -1 .. MaxCurrent, 100 and a few counts
\* that runs recommend.
MaxCurrent == 2

RECURSIVE Join(_)
Join(chunks) ==
    IF chunks = <<>> THEN <<>>
    ELSE IF Len(chunks) = 1 THEN chunks[1]
    ELSE chunks[1] \o <<",">> \o Join(Tail(chunks))

NameParts == {<<>>, <<" ">>, <<"a">>, <<" ", "a">>, <<"b">>}
ValueParts == {<<>>, <<"1">>, <<" ", "2">>, <<"b">>, <<"1", ":", "2">>}

\* A chunk is a name alone or a name, a colon and a value.
Chunks ==
    NameParts \cup {nm \o <<":">> \o v : nm \in NameParts, v \in ValueParts}

GeneratedClassBoxes ==
    UNION {{Join(cs) : cs \in [1..k -> Chunks]} : k \in 0..MaxChunks}

HeaderBodyFooter ==
    <<"h", "e", "a", "d", "e", "r", ":", "1", ",",
      "b", "o", "d", "y", ":", "2", ",",
      "f", "o", "o", "t", "e", "r", ":", "1">>

\* The --class-boxes values run against every numeric argument.
ChosenClassBoxes ==
    {HeaderBodyFooter,
     <<"a", ":", "1">>,
     <<"a", ":", ".", "5", ",", "b", ":", "2">>,
     <<"b", ":", "2", ",", "a", ":", "1", ".", "5", ",", "b", ":", "4">>,
     <<"a", ":", "1", ",", "b", ":", "0">>,
     <<"a", ":", "-", "1">>,
     <<"a">>,
     <<>>}

Confidences ==
    {Zero, Q(9, 10), Q(19, 20), Q(99, 100), One, IntQ(2),
     IntQ(90), IntQ(95), IntQ(99), IntQ(100), IntQ(150)}
Margins == {Zero, Q(1, 20), Q(1, 10), One, Q(3, 2)}
BaseRates == {Zero, Q(1, 4), Q(1, 2), One}
\* Image counts that some of the modelled runs recommend.
RecommendedCounts == {97, 385, 769}
CurrentImages ==
    {None, Some(100)} \cup {Some(n) : n \in -1..MaxCurrent}
    \cup {Some(n) : n \in RecommendedCounts}

\* argparse's defaults (lines 59-89).
DefaultConfidence == Q(19, 20)
DefaultMargin == Q(1, 20)
DefaultBaseRate == Q(1, 2)

Args ==
    [class_boxes : ChosenClassBoxes, confidence : Confidences,
     margin : Margins, base_rate : BaseRates, current_images : CurrentImages]
    \cup
    [class_boxes : GeneratedClassBoxes, confidence : {DefaultConfidence},
     margin : {DefaultMargin}, base_rate : {DefaultBaseRate},
     current_images : {None}]

(***************************************************************************)
(* main                                                                    *)
(***************************************************************************)
VARIABLES
    args,          \* the parsed command line (argparse.Namespace)
    pc,            \* where main() is
    classes,       \* dict name -> boxes_per_image
    confidence,    \* the local variable of that name
    z,
    boxes_needed,
    per_class,     \* dict name -> image count
    idx,           \* position of the running for loop in classes
    recommended,   \* 0 until line 112 binds it
    out,           \* the lines printed so far
    err            \* the message of the exception that ended the run, "" if none

\* Direct calls of the two formulas (required_boxes, margin_from_boxes), as a
\* test of the functions makes them.
VARIABLES
    fin,           \* the z and base_rate the calls share
    fout           \* the latest call: its arguments and its results

formulaVars == <<fin, fout>>

\* src/scripts/load_parquet_metadata.py: the directory, the database table
\* and one run after another of load_metadata_from_parquet.
VARIABLES
    disk,              \* file name -> number of rows, -1 when the file is absent
    table,             \* document_metadata: record -> how many copies it holds
    lpc,               \* where load_metadata_from_parquet is
    parquet_files,     \* the sorted list line 48 found
    fi,                \* position of the for loop in parquet_files
    metadata_df,       \* the records extracted from the current file
    loaded,            \* the files whose insert succeeded in this run
    total_rows_loaded,
    runs               \* runs started so far

loaderVars ==
    <<disk, table, lpc, parquet_files, fi, metadata_df, loaded,
      total_rows_loaded, runs>>

\* What is not main()'s.
otherVars == <<formulaVars, loaderVars>>

vars ==
    <<args, pc, classes, confidence, z, boxes_needed, per_class, idx,
      recommended, out, err, otherVars>>

NoCall == [op |-> "none"]

\* No formula is being called directly.
FormulasIdle == fin = [z |-> Zero, base_rate |-> Zero] /\ fout = NoCall

\* Most rows in a parquet file.
MaxRows == 2
\* Most runs of load_metadata_from_parquet in a behaviour.
MaxRuns == 3

\* The file names of the directory, in sorted order.
FileOrder == <<"a.parquet", "b.parquet">>
Files == {FileOrder[i] : i \in 1..Len(FileOrder)}

\* The records document_metadata can hold (label and image_size_bytes are
\* functions of the row and are left out).
Records == [parquet_file : Files, row_index : 0..(MaxRows - 1)]

\* The loader before its first run: an empty directory and an empty table.
LoaderIdle ==
    /\ disk = [f \in Files |-> -1]
    /\ table = [r \in Records |-> 0]
    /\ lpc = "idle"
    /\ parquet_files = <<>>
    /\ fi = 0
    /\ metadata_df = {}
    /\ loaded = {}
    /\ total_rows_loaded = 0
    /\ runs = 0

\* main() has not started.
Fresh ==
    /\ pc = "parse"
    /\ classes = <<>>
    /\ confidence = Unbound
    /\ z = Unbound
    /\ boxes_needed = Unbound
    /\ per_class = <<>>
    /\ idx = 0
    /\ recommended = 0
    /\ out = <<>>
    /\ err = ""

Init ==
    /\ args \in Args
    /\ Fresh
    /\ FormulasIdle
    /\ LoaderIdle

Raise(msg) == pc' = "error" /\ err' = msg

\* Line 97
ParseClassBoxes ==
    /\ pc = "parse"
    /\ LET r == parse_class_boxes(args.class_boxes)
       IN  IF r.ok
           THEN classes' = r.entries /\ pc' = "normalize" /\ err' = err
           ELSE Raise(r.err) /\ classes' = classes
    /\ UNCHANGED <<args, confidence, z, boxes_needed, per_class, idx,
                   recommended, out,
                   otherVars>>

\* Lines 98-102
NormalizeConfidence ==
    /\ pc = "normalize"
    /\ LET r == Normalize(args.confidence)
       IN  IF r.ok
           THEN confidence' = r.val /\ pc' = "z_score" /\ err' = err
           ELSE Raise(r.err) /\ confidence' = args.confidence
    /\ UNCHANGED <<args, classes, z, boxes_needed, per_class, idx,
                   recommended, out,
                   otherVars>>

\* Line 103
ZScore ==
    /\ pc = "z_score"
    /\ LET r == z_score(confidence)
       IN  IF r.ok
           THEN z' = r.val /\ pc' = "required_boxes" /\ err' = err
           ELSE Raise(r.err) /\ z' = z
    /\ UNCHANGED <<args, classes, confidence, boxes_needed, per_class, idx,
                   recommended, out,
                   otherVars>>

\* Lines 104-106
RequiredBoxes ==
    /\ pc = "required_boxes"
    /\ LET r == required_boxes(z, args.margin, args.base_rate)
       IN  IF r.ok
           THEN /\ boxes_needed' = r.val
                /\ pc' = "per_class"
                /\ idx' = 1
                /\ err' = err
           ELSE Raise(r.err) /\ boxes_needed' = boxes_needed /\ idx' = idx
    /\ UNCHANGED <<args, classes, confidence, z, per_class, recommended, out,
                   otherVars>>

\* Lines 107-110: one iteration of the loop over classes.items()
PerClassStep ==
    /\ pc = "per_class"
    /\ idx <= Len(classes)
    /\ LET name == classes[idx].name
           boxes_per_image == classes[idx].value
       IN  IF NotPositive(boxes_per_image)
           THEN Raise(ErrBoxesPerImage) /\ per_class' = per_class /\ idx' = idx
           ELSE /\ per_class' =
                       DictSet(per_class, name, ImagesFor(boxes_needed, boxes_per_image))
                /\ idx' = idx + 1
                /\ pc' = pc
                /\ err' = err
    /\ UNCHANGED <<args, classes, confidence, z, boxes_needed, recommended, out,
                   otherVars>>

\* Lines 112-121: the loop is over; take the maximum and print the report.
Report ==
    /\ pc = "per_class"
    /\ idx > Len(classes)
    /\ recommended' = MaxCount(per_class)
    /\ out' = out \o ReportLines(args, confidence, z, boxes_needed, per_class,
                                 MaxCount(per_class))
    /\ pc' = "current"
    /\ UNCHANGED <<args, classes, confidence, z, boxes_needed, per_class, idx, err,
                   otherVars>>

\* Lines 123-125
CurrentHeader ==
    /\ pc = "current"
    /\ IF Truthy(args.current_images)
       THEN /\ out' = out \o <<[kind |-> "blank"],
                               [kind |-> "with", images |-> args.current_images[1]]>>
            /\ idx' = 1
            /\ pc' = "margins"
       ELSE pc' = "done" /\ out' = out /\ idx' = idx
    /\ UNCHANGED <<args, classes, confidence, z, boxes_needed, per_class,
                   recommended, err,
                   otherVars>>

\* Lines 126-132: one iteration of the second loop over classes.items()
CurrentStep ==
    /\ pc = "margins"
    /\ idx <= Len(classes)
    /\ LET boxes == MulQ(IntQ(args.current_images[1]), classes[idx].value)
           r == margin_from_boxes(z, args.base_rate, boxes)
       IN  IF r.ok
           THEN /\ out' = Append(out, [kind |-> "margin",
                                       name |-> classes[idx].name,
                                       margin |-> r, boxes |-> boxes])
                /\ idx' = idx + 1
                /\ pc' = pc
                /\ err' = err
           ELSE Raise(r.err) /\ out' = out /\ idx' = idx
    /\ UNCHANGED <<args, classes, confidence, z, boxes_needed, per_class,
                   recommended,
                   otherVars>>

\* main returns.
Return ==
    /\ pc = "margins"
    /\ idx > Len(classes)
    /\ pc' = "done"
    /\ UNCHANGED <<args, classes, confidence, z, boxes_needed, per_class, idx,
                   recommended, out, err,
                   otherVars>>

Next ==
    \/ ParseClassBoxes
    \/ NormalizeConfidence
    \/ ZScore
    \/ RequiredBoxes
    \/ PerClassStep
    \/ Report
    \/ CurrentHeader
    \/ CurrentStep
    \/ Return

Spec == Init /\ [][Next]_vars

(***************************************************************************)
(* The formulas called directly                                            *)
(***************************************************************************)
\* Box counts passed to margin_from_boxes range over k/2, -1 <= k <= MaxBoxes,
\* and 100.
MaxBoxes == 4

ZValues ==
    {Q(-1960, 1000), Zero, Q(25, 1000), Q(1645, 1000), Q(1960, 1000),
     Q(2576, 1000)}
FormulaBaseRates == BaseRates \cup {Q(3, 2)}
FormulaMargins == Margins \cup {Q(1, 2)}
BoxCounts == {Q(k, 2) : k \in -1..MaxBoxes} \cup {IntQ(100)}

\* The arguments of main() while only the formulas are called.
DefaultArgs ==
    [class_boxes |-> HeaderBodyFooter, confidence |-> DefaultConfidence,
     margin |-> DefaultMargin, base_rate |-> DefaultBaseRate,
     current_images |-> None]

InitFormulas ==
    /\ args = DefaultArgs
    /\ Fresh
    /\ fin \in [z : ZValues, base_rate : FormulaBaseRates]
    /\ fout = NoCall
    /\ LoaderIdle

\* required_boxes at two margins, same z and base_rate.
CallRequiredBoxes ==
    /\ \E m1, m2 \in FormulaMargins :
           fout' = [op |-> "required_boxes", a |-> m1, b |-> m2,
                    ra |-> required_boxes(fin.z, m1, fin.base_rate),
                    rb |-> required_boxes(fin.z, m2, fin.base_rate)]
    /\ UNCHANGED <<args, pc, classes, confidence, z, boxes_needed, per_class,
                   idx, recommended, out, err, fin, loaderVars>>

\* margin_from_boxes at two box counts, same z and base_rate.
CallMarginFromBoxes ==
    /\ \E b1, b2 \in BoxCounts :
           fout' = [op |-> "margin_from_boxes", a |-> b1, b |-> b2,
                    ra |-> margin_from_boxes(fin.z, fin.base_rate, b1),
                    rb |-> margin_from_boxes(fin.z, fin.base_rate, b2)]
    /\ UNCHANGED <<args, pc, classes, confidence, z, boxes_needed, per_class,
                   idx, recommended, out, err, fin, loaderVars>>

\* margin_from_boxes on the n that required_boxes just returned for margin a.
CallRoundTrip ==
    /\ fout.op = "required_boxes"
    /\ fout.ra.ok
    /\ fout' = [op |-> "round_trip", a |-> fout.a, b |-> fout.ra.val,
                ra |-> fout.ra,
                rb |-> margin_from_boxes(fin.z, fin.base_rate, fout.ra.val)]
    /\ UNCHANGED <<args, pc, classes, confidence, z, boxes_needed, per_class,
                   idx, recommended, out, err, fin, loaderVars>>

NextFormulas == CallRequiredBoxes \/ CallMarginFromBoxes \/ CallRoundTrip

SpecFormulas == InitFormulas /\ [][NextFormulas]_vars

(***************************************************************************)
(* load_metadata_from_parquet                                              *)
(***************************************************************************)
mainVars ==
    <<args, pc, classes, confidence, z, boxes_needed, per_class, idx,
      recommended, out, err>>

InitLoader ==
    /\ args = DefaultArgs
    /\ Fresh
    /\ FormulasIdle
    /\ LoaderIdle

\* Line 48: sorted(parquet_path.glob('*.parquet'))
Glob(d) == SelectSeq(FileOrder, LAMBDA f : d[f] >= 0)

\* Lines 67-78: one metadata record per row of the file.
ExtractMetadata(pf, rows) ==
    {[parquet_file |-> pf, row_index |-> i] : i \in 0..(rows - 1)}

\* Lines 84-88: DELETE FROM document_metadata WHERE parquet_file = :pf
DeleteWhereMutant(t, pf) == t
DeleteWhere(t, pf) ==
    [r \in DOMAIN t |-> IF r.parquet_file = pf THEN 0 ELSE t[r]]

\* Lines 91-98: to_sql(..., if_exists='append')
AppendRows(t, df) == [r \in DOMAIN t |-> IF r \in df THEN t[r] + 1 ELSE t[r]]

\* A run starts (lines 25-58) on the directory as it is by then: files may
\* have been added, removed or rewritten since the last run.
StartRun ==
    /\ lpc \in {"idle", "done", "crashed"}
    /\ runs < MaxRuns
    /\ runs' = runs + 1
    /\ disk' \in [Files -> -1..MaxRows]
    /\ parquet_files' = Glob(disk')
    /\ lpc' = IF Glob(disk') = <<>> THEN "done" ELSE "read"
    /\ fi' = 1
    /\ metadata_df' = {}
    /\ loaded' = {}
    /\ total_rows_loaded' = 0
    /\ UNCHANGED <<mainVars, formulaVars, table>>

\* Lines 60-78: read the next file and extract its metadata; read_parquet is
\* outside the try, so its exception ends the run.
ReadFile ==
    /\ lpc = "read"
    /\ fi <= Len(parquet_files)
    /\ \E ok \in BOOLEAN :
           IF ok
           THEN /\ metadata_df' =
                       ExtractMetadata(parquet_files[fi], disk[parquet_files[fi]])
                /\ lpc' = "delete"
           ELSE metadata_df' = metadata_df /\ lpc' = "crashed"
    /\ UNCHANGED <<mainVars, formulaVars, disk, table, parquet_files, fi,
                   loaded, total_rows_loaded, runs>>

\* Lines 81-88: delete the file's records and commit; an exception goes to
\* line 104 and on to the next file.
DeleteExisting ==
    /\ lpc = "delete"
    /\ \E ok \in BOOLEAN :
           IF ok
           THEN /\ table' = DeleteWhere(table, parquet_files[fi])
                /\ lpc' = "insert"
                /\ fi' = fi
           ELSE table' = table /\ lpc' = "read" /\ fi' = fi + 1
    /\ UNCHANGED <<mainVars, formulaVars, disk, parquet_files, metadata_df,
                   loaded, total_rows_loaded, runs>>

\* Lines 90-106: append the new records in one transaction; an exception
\* rolls it back and goes on to the next file.
InsertNew ==
    /\ lpc = "insert"
    /\ \E ok \in BOOLEAN :
           IF ok
           THEN /\ table' = AppendRows(table, metadata_df)
                /\ loaded' = loaded \cup {parquet_files[fi]}
                /\ total_rows_loaded' = total_rows_loaded + Cardinality(metadata_df)
           ELSE /\ table' = table
                /\ loaded' = loaded
                /\ total_rows_loaded' = total_rows_loaded
    /\ lpc' = "read"
    /\ fi' = fi + 1
    /\ UNCHANGED <<mainVars, formulaVars, disk, parquet_files, metadata_df,
                   runs>>

\* Lines 108-155: the loop is over.
FinishRun ==
    /\ lpc = "read"
    /\ fi > Len(parquet_files)
    /\ lpc' = "done"
    /\ UNCHANGED <<mainVars, formulaVars, disk, table, parquet_files, fi,
                   metadata_df, loaded, total_rows_loaded, runs>>

NextLoader ==
    \/ StartRun
    \/ ReadFile
    \/ DeleteExisting
    \/ InsertNew
    \/ FinishRun

SpecLoader == InitLoader /\ [][NextLoader]_vars

(***************************************************************************)
(* Properties                                                              *)
(***************************************************************************)
ParseErrors == {ErrPair, ErrFloat, ErrNoClass}

\* parse_class_boxes has returned a mapping.
ParseOk == pc # "parse" /\ err \notin ParseErrors

\* The run is over.
Finished == pc \in {"done", "error"}

Header == <<"h", "e", "a", "d", "e", "r">>
Body == <<"b", "o", "d", "y">>
Footer == <<"f", "o", "o", "t", "e", "r">>

\* --class-boxes header:1,body:2,footer:1 --margin 0.05 --confidence 0.95
\* --base-rate 0.5
PerClassDivisionRun ==
    /\ args.class_boxes = HeaderBodyFooter
    /\ args.margin = Q(1, 20)
    /\ args.confidence = Q(19, 20)
    /\ args.base_rate = Q(1, 2)

Counts(h, b, f) ==
    <<[name |-> Header, value |-> h], [name |-> Body, value |-> b],
      [name |-> Footer, value |-> f]>>

\* C1 as stated: on the per-class division run the estimator recommends
\* header=385, body=192, footer=385 and 385 overall.
C1_Original ==
    (PerClassDivisionRun /\ pc = "done")
        => per_class = Counts(385, 192, 385) /\ recommended = 385

\* C1 amended: on the per-class division run the estimator recommends
\* header=385, body=193 (the ceiling of 384.16 / 2 = 192.08), footer=385 and
\* 385 overall.
C1_PerClassDivision ==
    (PerClassDivisionRun /\ pc = "done")
        => per_class = Counts(385, 193, 385) /\ recommended = 385

C1_Witness ==
    /\ PerClassDivisionRun
    /\ pc = "done"
    /\ boxes_needed = Q(38416, 100)
    /\ Len(per_class) = 3

\* The local variable confidence is bound (lines 98-102 ran without error).
Normalized == ParseOk /\ pc # "normalize" /\ err # ErrPercent

\* z is bound.
HasZ == Normalized /\ pc # "z_score" /\ err # ErrConfidence

\* The z-score of confidence level c, by the definition in z_score's contract.
ZOf(c) == inv_cdf(AddQ(Q(1, 2), DivQ(c, IntQ(2))))

\* What lines 98-103 must do for a --confidence c in [lo, 100) read as a
\* percentage, c >= 100 and 0 < c < 1.
ConfidenceRule(c, percent) ==
    /\ (ParseOk /\ pc # "normalize" /\ LeQ(IntQ(100), c))
           => pc = "error" /\ err = ErrPercent
    /\ (ParseOk /\ pc # "normalize" /\ percent)
           => /\ confidence = DivQ(c, IntQ(100))
              /\ err \notin {ErrPercent, ErrConfidence}
              /\ pc # "z_score" => z = ZOf(DivQ(c, IntQ(100)))
    /\ (ParseOk /\ pc # "normalize" /\ InUnit(c))
           => /\ confidence = c
              /\ err \notin {ErrPercent, ErrConfidence}
              /\ pc # "z_score" => z = ZOf(c)

\* C2 as stated: every confidence c with 1 <= c < 100 is a percentage (z is
\* computed from c/100 and the confidence raises no error), every c >= 100
\* fails with the percentage message, every c in (0,1) is used unchanged.
C2_Original ==
    ConfidenceRule(args.confidence,
                   LeQ(One, args.confidence) /\ LtQ(args.confidence, IntQ(100)))

\* C2 amended: every confidence c with 1 < c < 100 is a percentage (z is
\* computed from c/100 and neither confidence check raises), c = 1 is passed
\* unchanged to z_score and fails its (0,1) check, every c >= 100 fails with
\* the percentage message, every c in (0,1) is used unchanged.
C2_ConfidenceNormalization ==
    /\ ConfidenceRule(args.confidence,
                      LtQ(One, args.confidence) /\ LtQ(args.confidence, IntQ(100)))
    /\ (ParseOk /\ pc # "normalize" /\ args.confidence = One)
           => /\ confidence = One
              /\ pc # "z_score" => pc = "error" /\ err = ErrConfidence

C2_Witness ==
    /\ args.confidence = IntQ(2)
    /\ confidence = Q(1, 50)
    /\ pc = "required_boxes"
    /\ z = Q(25, 1000)

\* C3: a run that ends with an error has printed nothing.
C3_AllOrNothing == pc = "error" => out = <<>>

\* C4: a supplied --current-images <= 0 makes the run fail: it never ends
\* normally.
C4_NonPositiveCurrentFails ==
    (args.current_images # None /\ args.current_images[1] <= 0) => pc # "done"

\* C5: no mapping with an empty class name is returned.
C5_EmptyNameRejected ==
    ParseOk => \A i \in 1..Len(classes) : classes[i].name # <<>>

\* m is the least integer with m * boxes_per_image >= n.
LeastCover(m, boxes_per_image, n) ==
    /\ LeQ(n, MulQ(IntQ(m), boxes_per_image))
    /\ LtQ(MulQ(IntQ(m - 1), boxes_per_image), n)

\* C6: every recommended per-class image count is the least integer m with
\* m * instances_per_image >= required_boxes, for the one unrounded
\* required_boxes value n of the run, n * margin^2 = z^2 * p * (1 - p).
C6_PerClassCeiling ==
    per_class # <<>> =>
        /\ MulQ(boxes_needed, MulQ(args.margin, args.margin))
               = MulQ(MulQ(z, z), MulQ(args.base_rate, SubQ(One, args.base_rate)))
        /\ \A i \in 1..Len(per_class) :
               /\ per_class[i].name = classes[i].name
               /\ LeastCover(per_class[i].value, classes[i].value, boxes_needed)

\* A finished run with a fractional instances-per-image value, where rounding
\* required_boxes before the division would give a different count.
C6_Witness ==
    /\ pc = "done"
    /\ \E i \in 1..Len(per_class) :
           /\ classes[i].value = Q(1, 2)
           /\ per_class[i].value # Ceil(DivQ(IntQ(Ceil(boxes_needed)), classes[i].value))

\* The report has been printed (recommended is bound).
Reported == out # <<>>

\* C7: the overall recommendation is the maximum of the per-class counts, and
\* it is the count of every class with the smallest instances-per-image.
C7_MaxIsScarcest ==
    Reported =>
        /\ \E i \in 1..Len(per_class) : per_class[i].value = recommended
        /\ \A i \in 1..Len(per_class) : per_class[i].value <= recommended
        /\ \A i \in 1..Len(classes) :
               (\A j \in 1..Len(classes) : LeQ(classes[i].value, classes[j].value))
                   => per_class[i].value = recommended

\* The scarcest class is not the first one and the counts differ.
C7_Witness ==
    /\ pc = "done"
    /\ Len(per_class) >= 2
    /\ per_class[1].value < recommended
    /\ \E i \in 2..Len(classes) : LtQ(classes[i].value, classes[1].value)

\* The chunks of the raw string, and the trimmed name and the value text of a
\* chunk.
RawChunks == Split(args.class_boxes, ",")
NonBlank(chunk) == \E k \in 1..Len(chunk) : chunk[k] # " "
HasColon(chunk) == \E k \in 1..Len(chunk) : chunk[k] = ":"
FirstColon(chunk) ==
    CHOOSE k \in 1..Len(chunk) :
        chunk[k] = ":" /\ \A m \in 1..(k - 1) : chunk[m] # ":"
NameOf(chunk) == Strip(SubSeq(chunk, 1, FirstColon(chunk) - 1))
ValueText(chunk) == SubSeq(chunk, FirstColon(chunk) + 1, Len(chunk))

\* C8: after a successful parse every name has exactly one entry, and each
\* chunk that is the last one with its trimmed name gives that entry's value.
C8_LastWriteWins ==
    ParseOk =>
        /\ \A i, j \in 1..Len(classes) :
               classes[i].name = classes[j].name => i = j
        /\ \A j \in 1..Len(RawChunks) :
               (/\ NonBlank(RawChunks[j])
                /\ \A k \in (j + 1)..Len(RawChunks) :
                       NonBlank(RawChunks[k]) => NameOf(RawChunks[k]) # NameOf(RawChunks[j]))
                   => \E i \in 1..Len(classes) :
                          /\ classes[i].name = NameOf(RawChunks[j])
                          /\ classes[i].value = ParseFloat(ValueText(RawChunks[j])).val

\* A name given twice with different values, parsed without error.
C8_Witness ==
    /\ ParseOk
    /\ Len(RawChunks) = 2
    /\ NonBlank(RawChunks[1]) /\ NonBlank(RawChunks[2])
    /\ NameOf(RawChunks[1]) = NameOf(RawChunks[2])
    /\ RawChunks[1] # RawChunks[2]
    /\ ParseFloat(ValueText(RawChunks[1])).val # ParseFloat(ValueText(RawChunks[2])).val
    /\ Len(classes) = 1

\* At least one chunk is non-blank, and every non-blank chunk has a colon
\* whose first occurrence is followed by a numeric value.
WellFormed ==
    /\ \E j \in 1..Len(RawChunks) : NonBlank(RawChunks[j])
    /\ \A j \in 1..Len(RawChunks) :
           NonBlank(RawChunks[j]) =>
               HasColon(RawChunks[j]) /\ ParseFloat(ValueText(RawChunks[j])).ok

\* C9: parse_class_boxes returns a mapping exactly when the raw string is well
\* formed; otherwise it raises one of its errors and nothing is returned.
C9_ParseSucceedsIffWellFormed ==
    pc # "parse" =>
        /\ ParseOk <=> WellFormed
        /\ ~ParseOk => pc = "error" /\ classes = <<>>
        /\ ParseOk => classes # <<>>

\* A blank chunk was skipped next to a well-formed one.
C9_Witness ==
    /\ ParseOk
    /\ Len(RawChunks) = 2
    /\ \E j \in 1..2 : ~NonBlank(RawChunks[j])
    /\ Len(classes) = 1

AllPositive == \A i \in 1..Len(classes) : LtQ(Zero, classes[i].value)

\* C10: a run with margin or base_rate outside (0,1), or with a class whose
\* instances-per-image is <= 0, ends in an error and prints nothing; when the
\* class string and the confidence are valid the error is the margin's, the
\* base rate's or the class's own.
C10_RangeErrors ==
    /\ (pc = "done" \/ out # <<>>)
           => InUnit(args.margin) /\ InUnit(args.base_rate) /\ AllPositive
    /\ (HasZ /\ pc # "required_boxes" /\ ~InUnit(args.margin))
           => pc = "error" /\ err = ErrMargin
    /\ (HasZ /\ pc # "required_boxes" /\ InUnit(args.margin)
             /\ ~InUnit(args.base_rate))
           => pc = "error" /\ err = ErrBaseRate
    /\ (HasZ /\ InUnit(args.margin) /\ InUnit(args.base_rate) /\ ~AllPositive
             /\ Finished)
           => err = ErrBoxesPerImage

\* A class with value 0 ended an otherwise valid run.
C10_Witness ==
    /\ pc = "error"
    /\ err = ErrBoxesPerImage
    /\ \E i \in 1..Len(classes) : classes[i].value = Zero
    /\ InUnit(args.margin) /\ InUnit(args.base_rate)

\* A round trip whose n was accepted by margin_from_boxes.
RoundTripDone == fout.op = "round_trip" /\ fout.rb.ok

\* The result r of margin_from_boxes is the number s * m, s in {-1, 1}.
IsMargin(r, s, m) == r.sgn = s /\ r.sq = MulQ(m, m)

\* C11 as stated: whenever n = required_boxes(z, E, p) is accepted by
\* margin_from_boxes, margin_from_boxes(z, p, n) is E, for every z.
C11_Original == RoundTripDone => IsMargin(fout.rb, 1, fout.a)

\* C11 amended: whenever n = required_boxes(z, E, p) is accepted by
\* margin_from_boxes, E^2 * n = z^2 * p * (1 - p), and margin_from_boxes(z, p, n)
\* is E when z > 0 and -E when z < 0.
C11_RoundTrip ==
    RoundTripDone =>
        /\ MulQ(MulQ(fout.a, fout.a), fout.b)
               = MulQ(MulQ(fin.z, fin.z), MulQ(fin.base_rate, SubQ(One, fin.base_rate)))
        /\ fin.z # Zero
        /\ IsMargin(fout.rb, SignOf(fin.z), fout.a)

C11_Witness ==
    /\ RoundTripDone
    /\ fin.z = Q(1960, 1000)
    /\ fin.base_rate = Q(1, 2)
    /\ fout.a = Q(1, 20)
    /\ fout.b = Q(38416, 100)
    /\ IsMargin(fout.rb, 1, Q(1, 20))

\* Two accepted calls of the same formula at arguments a < b.
PairOf(op) == fout.op = op /\ fout.ra.ok /\ fout.rb.ok /\ LtQ(fout.a, fout.b)

\* Orders the results of margin_from_boxes as numbers: t -> sign(t) * t^2 is
\* strictly increasing.
SignedSq(r) == MulQ(IntQ(r.sgn), r.sq)

\* C12 as stated: for every z and base_rate the functions accept,
\* required_boxes is strictly decreasing in margin and margin_from_boxes is
\* strictly decreasing in boxes.
C12_Original ==
    /\ PairOf("required_boxes") => LtQ(fout.rb.val, fout.ra.val)
    /\ PairOf("margin_from_boxes") => LtQ(SignedSq(fout.rb), SignedSq(fout.ra))

\* C12 amended: required_boxes is strictly decreasing in margin for every
\* z # 0, and margin_from_boxes is strictly decreasing in boxes for every z > 0
\* and base_rate in (0,1).
C12_Monotonicity ==
    /\ (PairOf("required_boxes") /\ fin.z # Zero)
           => LtQ(fout.rb.val, fout.ra.val)
    /\ (PairOf("margin_from_boxes") /\ LtQ(Zero, fin.z) /\ InUnit(fin.base_rate))
           => LtQ(SignedSq(fout.rb), SignedSq(fout.ra))

C12_Witness ==
    /\ PairOf("margin_from_boxes")
    /\ fin.z = Q(1960, 1000)
    /\ fin.base_rate = Q(1, 2)
    /\ fout.a = One
    /\ fout.b = IntQ(100)
    /\ fout.ra.sq = Q(9604, 10000)
    /\ fout.rb.sq = Q(9604, 1000000)

\* The run was given its own recommendation as --current-images.
CurrentIsRecommended == Reported /\ args.current_images = Some(recommended)

\* The margin lines printed so far.
MarginLines == {k \in 1..Len(out) : out[k].kind = "margin"}

\* The result r of margin_from_boxes is at most the margin m > 0.
MarginAtMost(r, m) == r.sgn <= 0 \/ LeQ(r.sq, MulQ(m, m))

\* C13: when --current-images is the run's own overall recommendation, the
\* second loop raises nothing, and the worst-case margin it reports for each
\* class, computed for current_images * instances_per_image boxes, is at most
\* the target margin; a finished run reports one such line per class.
C13_RecommendationSuffices ==
    CurrentIsRecommended =>
        /\ pc # "error"
        /\ \A k \in MarginLines :
               /\ MarginAtMost(out[k].margin, args.margin)
               /\ \E i \in 1..Len(classes) :
                      /\ classes[i].name = out[k].name
                      /\ out[k].boxes = MulQ(IntQ(recommended), classes[i].value)
        /\ pc = "done" => Cardinality(MarginLines) = Len(classes)

\* A finished two-class run at its own recommendation, where the scarcer
\* class meets the target margin exactly or just and the other one strictly.
C13_Witness ==
    /\ CurrentIsRecommended
    /\ pc = "done"
    /\ Len(classes) = 2
    /\ recommended = 769
    /\ \E k \in MarginLines : LtQ(out[k].margin.sq, MulQ(args.margin, args.margin))
    /\ Cardinality(MarginLines) = 2

\* How many records document_metadata holds for row i of file f.
Held(f, i) == table[[parquet_file |-> f, row_index |-> i]]

\* C14: at every point of every run, each file whose insert succeeded in this
\* run has exactly one record per row it had when read and no other record;
\* and the delete for one file changes no record of another file.
C14_ReloadReplaces ==
    /\ [](\A f \in loaded : \A i \in 0..(MaxRows - 1) :
              Held(f, i) = IF i < disk[f] THEN 1 ELSE 0)
    /\ [][(lpc = "delete" /\ lpc' = "insert")
              => \A r \in Records :
                     r.parquet_file # parquet_files[fi] => table'[r] = table[r]]_vars

\* A later run has reloaded a file that now has fewer rows than the records
\* the table held for it, next to records of another file.
C14_Witness ==
    /\ runs >= 2
    /\ lpc = "done"
    /\ "a.parquet" \in loaded
    /\ disk["a.parquet"] = 1
    /\ "b.parquet" \notin loaded
    /\ Held("b.parquet", 0) = 1
    /\ Held("b.parquet", 1) = 1
    /\ disk["b.parquet"] = -1

====
